---- MODULE Spec2Model ----
(***************************************************************************)
(* Model of lib/File.js of buffered-csv: a CSV file with buffered writes.  *)
(*                                                                         *)
(* Text is a sequence of one-character strings, so that quoting, escaping  *)
(* and joining are computed as the code computes them.  A handler (add,    *)
(* flush, complete, the interval callback, the completion callback of a    *)
(* write) is one action; the handler's body is an operator on a "machine"  *)
(* record m that holds the private state of the File plus the effects the  *)
(* call has produced so far and the exception it has thrown, if any.       *)
(***************************************************************************)
EXTENDS Integers, Sequences, FiniteSets

(***************************************************************************)
(* Bounds of the model.                                                    *)
(***************************************************************************)
MaxAdds == 2
MaxFlushLines == 1

(***************************************************************************)
(* Options left at their defaults (_getOptions).                           *)
(***************************************************************************)
delimeter == <<",">>
quote == <<"\"">>
escape == <<"\\">>
nullValue == <<"N", "U", "L", "L">>
eol == <<"\n">>

(***************************************************************************)
(* JavaScript values that occur as cells of a row.  An "object" value is   *)
(* one without a toString property (Object.create(null)).                  *)
(***************************************************************************)
Undefined == [kind |-> "undefined", str |-> <<>>, num |-> 0]
Null == [kind |-> "null", str |-> <<>>, num |-> 0]
Str(s) == [kind |-> "string", str |-> s, num |-> 0]
Num(n) == [kind |-> "number", str |-> <<>>, num |-> n]
NoToString == [kind |-> "object", str |-> <<>>, num |-> 0]

Digit(d) == <<"0", "1", "2", "3", "4", "5", "6", "7", "8", "9">>[d + 1]

RECURSIVE NumToString(_)
NumToString(n) == IF n < 10 THEN <<Digit(n)>> ELSE NumToString(n \div 10) \o <<Digit(n % 10)>>

\* value.toString() of a string or a number; join converts a cell the same way
toString(v) == IF v.kind = "number" THEN NumToString(v.num) ELSE v.str

\* does text start with pat at position i
MatchAt(text, pat, i) == /\ i + Len(pat) - 1 <= Len(text)
                         /\ \A k \in 1..Len(pat) : text[i + k - 1] = pat[k]

\* a replacement of every occurrence, as replace does with a global regular expression
RECURSIVE ReplaceAll(_, _, _)
ReplaceAll(text, pat, rep) ==
    IF text = <<>> THEN <<>>
    ELSE IF MatchAt(text, pat, 1)
         THEN rep \o ReplaceAll(SubSeq(text, Len(pat) + 1, Len(text)), pat, rep)
         ELSE <<text[1]>> \o ReplaceAll(Tail(text), pat, rep)

\* String.prototype.replace(pattern, replacement) with a string pattern:
\* only the first occurrence is replaced
ReplaceFirst(text, pat, rep) ==
    LET hits == {i \in 1..Len(text) : MatchAt(text, pat, i)}
    IN  IF hits = {} THEN text
        ELSE LET i == CHOOSE h \in hits : \A g \in hits : h <= g
             IN  SubSeq(text, 1, i - 1) \o rep \o SubSeq(text, i + Len(pat), Len(text))

\* Array.prototype.join on a sequence of texts
RECURSIVE Join(_, _)
Join(texts, sep) == IF texts = <<>> THEN <<>>
                    ELSE IF Len(texts) = 1 THEN texts[1]
                    ELSE texts[1] \o sep \o Join(Tail(texts), sep)

RECURSIVE Concat(_)
Concat(texts) == IF texts = <<>> THEN <<>> ELSE texts[1] \o Concat(Tail(texts))

(***************************************************************************)
(* What a call throws: the three strings the code throws, and the          *)
(* TypeErrors of the runtime.                                              *)
(***************************************************************************)
NotOpen == "file_not_open"
InvalidData == "invalid_data"
NotAString == "not_a_string"
KeysOfNull == "TypeError: Cannot convert undefined or null to object"
QuotedOfUndefined == "TypeError: Cannot read property 'quoted' of undefined"
NoPrimitive == "TypeError: Cannot convert object to primitive value"

(***************************************************************************)
(* Field names.  Object.keys lists integer-like keys first, in ascending   *)
(* numeric order, and the other keys after them in insertion order; a      *)
(* property lookup on a plain object also finds what Object.prototype      *)
(* defines.                                                                *)
(***************************************************************************)
NameA == <<"A">>
NameB == <<"B">>
Name1 == <<"1">>
NameToString == <<"t", "o", "S", "t", "r", "i", "n", "g">>

\* the array index a key denotes, or -1 when it is an ordinary string key
KeyIndex(name) == IF name = Name1 THEN 1 ELSE -1

\* names that every plain object inherits from Object.prototype
InheritedNames == {NameToString}

Paths == {"a.csv", "b.csv"}
NoPath == "null"

VARIABLES
    cfg,        \* the options of the File (this.headers, this.overwrite, ...)
    fields,     \* this.fields: the own keys in Object.keys order, with their settings
    buffer,     \* _(this).buffer: the lines not yet written, each with the number of its add
    lastPath,   \* _(this).lastPath
    open,       \* _(this).open
    timerFlushInterval, \* _(this).timerFlushInterval: "undefined", "timer" (running) or "null"
    existing,   \* the paths that exist in storage (fs.existsSync)
    inflight,   \* the writes handed to fs whose callback has not run yet
    nextId,     \* how many lines add has accepted
    last,       \* the last handler call: what was called, with what, and what it did
    hist        \* what has been emitted and dispatched so far

vars == <<cfg, fields, buffer, lastPath, open, timerFlushInterval, existing, inflight, nextId, last, hist>>

(***************************************************************************)
(* The machine record of a handler call.                                   *)
(***************************************************************************)
Machine == [fields |-> fields, buffer |-> buffer, lastPath |-> lastPath, open |-> open,
            timerFlushInterval |-> timerFlushInterval, nextId |-> nextId,
            effects |-> <<>>, thrown |-> "none"]

Throw(m, what) == [m EXCEPT !.thrown = what]

Effect(type, path, hdr, csv, mode, ids) ==
    [type |-> type, path |-> path, hdr |-> hdr, csv |-> csv, mode |-> mode, ids |-> ids]

Emit(m, e) == [m EXCEPT !.effects = Append(@, e)]

FieldNames(fs) == [i \in 1..Len(fs) |-> fs[i].name]

\* this.fields[name] !== undefined
HasField(fs, name) == \/ \E i \in 1..Len(fs) : fs[i].name = name
                      \/ name \in InheritedNames

\* this.fields[name] = {quoted: true}, at the place Object.keys will list the new key
DefineField(fs, name) ==
    LET f == [name |-> name, quoted |-> TRUE]
        before == {i \in 1..Len(fs) :
                     IF KeyIndex(name) >= 0
                     THEN KeyIndex(fs[i].name) >= 0 /\ KeyIndex(fs[i].name) < KeyIndex(name)
                     ELSE TRUE}
        n == Cardinality(before)
    IN  SubSeq(fs, 1, n) \o <<f>> \o SubSeq(fs, n + 1, Len(fs))

RECURSIVE _autodetectFields(_, _)
_autodetectFields(fs, names) ==
    IF names = <<>> THEN fs
    ELSE _autodetectFields(IF HasField(fs, names[1]) THEN fs ELSE DefineField(fs, names[1]),
                           Tail(names))

\* data[name] of a key/value map
Lookup(data, name) ==
    LET hits == {i \in 1..Len(data.keys) : data.keys[i] = name}
    IN  IF hits = {} THEN Undefined ELSE data.vals[CHOOSE i \in hits : TRUE]

\* the line of a row and the fields after the row, or the TypeError of Object.keys(null)
_buildLinedata(fs, data) ==
    IF data.kind = "array" THEN [thrown |-> "none", fields |-> fs, line |-> data.vals]
    ELSE IF data.kind = "null" THEN [thrown |-> KeysOfNull, fields |-> fs, line |-> <<>>]
    ELSE LET fs2 == _autodetectFields(fs, data.keys)
         IN  [thrown |-> "none", fields |-> fs2,
              line |-> [i \in 1..Len(fs2) |-> Lookup(data, fs2[i].name)]]

_enquote(value) ==
    IF value.kind = "object" THEN [thrown |-> NotAString, text |-> <<>>]
    ELSE [thrown |-> "none",
          text |-> quote \o ReplaceFirst(toString(value), quote, escape \o quote) \o quote]

_generateCsvHeaders(fs) ==
    Join([i \in 1..Len(fs) |-> _enquote(Str(fs[i].name)).text], delimeter) \o eol

\* one cell of a line: its text, or what rendering it throws
Cell(fs, value, index) ==
    IF value.kind \in {"undefined", "null"} THEN [thrown |-> "none", text |-> nullValue]
    ELSE IF index > Len(fs) THEN [thrown |-> QuotedOfUndefined, text |-> <<>>]
    ELSE IF fs[index].quoted THEN _enquote(value)
    ELSE IF value.kind = "object" THEN [thrown |-> NoPrimitive, text |-> <<>>]
    ELSE [thrown |-> "none", text |-> toString(value)]

\* a line without the loop that pushes nullValue while the line is shorter than the fields
LineAsLongAsItIs(fs, lineData) ==
    LET cells == [i \in 1..Len(lineData) |-> Cell(fs, lineData[i], i)]
        fails == {i \in 1..Len(cells) : cells[i].thrown # "none"}
    IN  IF fails # {}
        THEN [thrown |-> cells[CHOOSE i \in fails : \A j \in fails : i <= j].thrown, text |-> <<>>]
        ELSE [thrown |-> "none",
              text |-> Join([i \in 1..Len(cells) |-> cells[i].text], delimeter) \o eol]

\* one line: the first exception of its cells, or its text
Line(fs, lineData) ==
    LET cells == [i \in 1..Len(lineData) |-> Cell(fs, lineData[i], i)]
        enquoteFails == {i \in 1..Len(cells) : cells[i].thrown # "none"
                                               /\ (i > Len(fs) \/ fs[i].quoted)}
        joinFails == {i \in 1..Len(cells) : cells[i].thrown # "none"}
        padded == [i \in 1..(IF Len(cells) < Len(fs) THEN Len(fs) ELSE Len(cells)) |->
                     IF i <= Len(cells) THEN cells[i].text ELSE nullValue]
    IN  IF enquoteFails # {}
        THEN [thrown |-> cells[CHOOSE i \in enquoteFails : \A j \in enquoteFails : i <= j].thrown,
              text |-> <<>>]
        ELSE IF joinFails # {} THEN [thrown |-> NoPrimitive, text |-> <<>>]
        ELSE [thrown |-> "none", text |-> Join(padded, delimeter) \o eol]

_generateCsvData(fs, buf) ==
    LET lines == [i \in 1..Len(buf) |-> Line(fs, buf[i].data)]
        fails == {i \in 1..Len(lines) : lines[i].thrown # "none"}
    IN  IF fails # {}
        THEN [thrown |-> lines[CHOOSE i \in fails : \A j \in fails : i <= j].thrown, text |-> <<>>]
        ELSE [thrown |-> "none", text |-> Concat([i \in 1..Len(lines) |-> lines[i].text])]

(***************************************************************************)
(* The handlers.  inp is what the environment contributes to one call:     *)
(* what the listener of "data" does when it is notified (inp.listener, a   *)
(* sequence of calls back into the File) and what the path callback        *)
(* returns (inp.path0 to the flush of the call itself, inp.path1 to a      *)
(* flush made from the listener).  d is the nesting depth: 0 for the call  *)
(* itself, 1 for a call made by the listener.                              *)
(***************************************************************************)
\* _requireOpen without its test, to tell a rule that depends on the test from one that
\* does not
_requireOpenNever(m) == m

_requireOpen(m) == IF m.open THEN m ELSE Throw(m, NotOpen)

\* typeof data
TypeOf(data) == IF data.kind \in {"array", "object", "null"} THEN "object" ELSE data.kind

_getPath(inp, d) == IF cfg.path # "function" THEN cfg.path
                    ELSE IF d = 0 THEN inp.path0 ELSE inp.path1

\* the conditions in the words of the comment above them ("or it does not exist")
WithHeadersAsCommented(m, path) ==
    cfg.headers /\ (m.lastPath # path) /\ (cfg.overwrite \/ path \notin existing)

\* the three conditions under which flush puts the headers first
WithHeaders(m, path) ==
    cfg.headers /\ (m.lastPath # path) /\ (cfg.overwrite \/ path \in existing)

\* a choice of the fs function by the overwrite option alone
SaveFunctionByOption(m, path) == IF cfg.overwrite THEN "writeFile" ELSE "appendFile"

\* the fs function flush saves with
SaveFunction(m, path) ==
    IF cfg.overwrite /\ (m.lastPath # path) THEN "writeFile" ELSE "appendFile"

\* add's conditions with the second one not looking at flushInterval
FlushNowWithoutLines(m) ==
    IF (cfg.flushLines > 0) /\ (Len(m.buffer) > cfg.flushLines) THEN TRUE
    ELSE cfg.flushLines = 0

\* add's two conditions to flush, once the line is in the buffer
FlushNow(m) ==
    IF (cfg.flushLines > 0) /\ (Len(m.buffer) > cfg.flushLines) THEN TRUE
    ELSE (cfg.flushLines = 0) /\ (cfg.flushInterval = 0)

Ids(buf) == [i \in 1..Len(buf) |-> buf[i].id]

RECURSIVE flush(_, _, _), add(_, _, _, _), complete(_, _, _), Listener(_, _, _)

\* one call the listener makes
Called(m, c, inp) ==
    IF c.call = "add" THEN add(m, c.data, inp, 1)
    ELSE IF c.call = "flush" THEN flush(m, inp, 1)
    ELSE complete(m, inp, 1)

\* the listener of "data" runs inside this.emit; what it throws leaves flush there
Listener(m, calls, inp) ==
    IF calls = <<>> \/ m.thrown # "none" THEN m
    ELSE Listener(Called(m, calls[1], inp), Tail(calls), inp)

\* var csv = (headers or '') + data, with the lines it is made of
Output(m, path, data) ==
    LET hdr == IF WithHeaders(m, path) THEN _generateCsvHeaders(m.fields) ELSE <<>>
    IN  [path |-> path, hdr |-> hdr, csv |-> hdr \o data.text, ids |-> Ids(m.buffer)]

\* the notification without the assignment that empties the buffer
EmittedKeeping(m, out, inp, d) ==
    Listener(Emit(m, Effect("data", out.path, out.hdr, out.csv, "", out.ids)),
             IF d = 0 THEN inp.listener ELSE <<>>, inp)

\* _(this).buffer = []; this.emit('data', path, csv)
Emitted(m, out, inp, d) ==
    Listener(Emit([m EXCEPT !.buffer = <<>>], Effect("data", out.path, out.hdr, out.csv, "", out.ids)),
             IF d = 0 THEN inp.listener ELSE <<>>, inp)

\* the save without the assignment that tracks the last used path
SavedUntracked(m, out) ==
    IF m.thrown # "none" THEN m
    ELSE Emit(m, Effect("write", out.path, out.hdr, out.csv, SaveFunction(m, out.path), out.ids))

\* saveFunction(path, csv, ...); _(this).lastPath = path
Saved(m, out) ==
    IF m.thrown # "none" THEN m
    ELSE [Emit(m, Effect("write", out.path, out.hdr, out.csv, SaveFunction(m, out.path), out.ids))
            EXCEPT !.lastPath = out.path]

\* a flush that empties the buffer before it generates the output
FlushedEmptyingFirst(m, path, data, inp, d) ==
    IF data.thrown # "none" THEN Throw([m EXCEPT !.buffer = <<>>], data.thrown)
    ELSE Saved(Emitted(m, Output(m, path, data), inp, d), Output(m, path, data))

Flushed(m, path, data, inp, d) ==
    IF data.thrown # "none" THEN Throw(m, data.thrown)
    ELSE Saved(Emitted(m, Output(m, path, data), inp, d), Output(m, path, data))

\* flush without the return for an empty buffer
flushWhateverIsBuffered(m, inp, d) ==
    IF _requireOpen(m).thrown # "none" THEN _requireOpen(m)
    ELSE Flushed(m, _getPath(inp, d), _generateCsvData(m.fields, m.buffer), inp, d)

flush(m, inp, d) ==
    IF _requireOpen(m).thrown # "none" THEN _requireOpen(m)
    ELSE IF Len(m.buffer) = 0 THEN m
    ELSE Flushed(m, _getPath(inp, d), _generateCsvData(m.fields, m.buffer), inp, d)

\* _(this).buffer.push(line), then the two conditions to flush
Pushed(m, built, inp, d) ==
    IF built.thrown # "none" THEN Throw(m, built.thrown)
    ELSE [m EXCEPT !.fields = built.fields,
                   !.buffer = Append(@, [id |-> m.nextId + 1, data |-> built.line]),
                   !.nextId = @ + 1]

Added(m, inp, d) ==
    IF m.thrown = "none" /\ FlushNow(m) THEN flush(m, inp, d) ELSE m

add(m, data, inp, d) ==
    IF _requireOpen(m).thrown # "none" THEN _requireOpen(m)
    ELSE IF TypeOf(data) # "object" THEN Throw(m, InvalidData)
    ELSE Added(Pushed(m, _buildLinedata(m.fields, data), inp, d), inp, d)

\* complete without the block that stops the flush interval
StoppedNever(m) == m

\* clearInterval(_(this).timerFlushInterval); _(this).timerFlushInterval = null
Stopped(m) ==
    IF m.timerFlushInterval # "null"
    THEN [Emit(m, Effect("clearInterval", m.timerFlushInterval, <<>>, <<>>, "", <<>>))
            EXCEPT !.timerFlushInterval = "null"]
    ELSE m

Closed(m) == IF m.thrown # "none" THEN m ELSE [m EXCEPT !.open = FALSE]

complete(m, inp, d) ==
    IF _requireOpen(m).thrown # "none" THEN _requireOpen(m)
    ELSE Closed(flush(Stopped(m), inp, d))

(***************************************************************************)
(* The arguments add is called with, and what the listener of "data" may   *)
(* do.                                                                     *)
(***************************************************************************)
Arr(vals) == [kind |-> "array", keys |-> <<>>, vals |-> vals]
Obj(keys, vals) == [kind |-> "object", keys |-> keys, vals |-> vals]
Scalar == [kind |-> "string", keys |-> <<>>, vals |-> <<>>]
UndefinedData == [kind |-> "undefined", keys |-> <<>>, vals |-> <<>>]
NullData == [kind |-> "null", keys |-> <<>>, vals |-> <<>>]
NoData == [kind |-> "none", keys |-> <<>>, vals |-> <<>>]

X == Str(<<"x">>)
Q == Str(<<"a", "\"", "b", "\"">>)

Rows == {Obj(<<NameA>>, <<X>>),
         Obj(<<NameB, NameA>>, <<Q, Null>>),
         Obj(<<Name1, NameToString>>, <<Num(12), X>>),
         Obj(<<NameA>>, <<NoToString>>),
         Arr(<<X>>)}

NotRows == {Scalar, UndefinedData, NullData}

\* Where the path is a callback, add is called with the two rows that always render:
\* what a cell holds and what add rejects do not depend on the destination.
Arguments == IF cfg.path = "function"
             THEN {Obj(<<NameA>>, <<X>>), Obj(<<NameB, NameA>>, <<Q, Null>>)}
             ELSE Rows \cup NotRows

Call(c, data) == [call |-> c, data |-> data]

ListenerPlans == {<<>>,
                  <<Call("add", Obj(<<NameB>>, <<X>>))>>,
                  <<Call("complete", NoData)>>}

RECURSIVE AddsIn(_)
AddsIn(calls) == IF calls = <<>> THEN 0
                 ELSE (IF calls[1].call = "add" THEN 1 ELSE 0) + AddsIn(Tail(calls))

\* path1 is only read when the listener adds a line
Inputs == {inp \in [listener : ListenerPlans, path0 : Paths, path1 : Paths] :
             /\ cfg.path # "function" => inp.path0 = cfg.path /\ inp.path1 = cfg.path
             /\ AddsIn(inp.listener) = 0 => inp.path1 = inp.path0}

(***************************************************************************)
(* Construction: _getOptions and _open.                                    *)
(***************************************************************************)
\* The options that decide when to flush are varied with the destination options at
\* their defaults (a fixed path, which is a new file), and the destination options
\* with no threshold and a path callback.
AllConfigs == [headers : BOOLEAN, overwrite : BOOLEAN, flushLines : 0..MaxFlushLines,
               flushInterval : {0, 1000}, path : {"a.csv", "function"},
               fields : {<<>>, <<[name |-> NameA, quoted |-> FALSE]>>}]

Configs == {c \in AllConfigs :
              \/ c.headers /\ c.overwrite /\ c.path = "a.csv"
              \/ c.flushLines = 0 /\ c.flushInterval = 0 /\ c.fields = <<>> /\ c.path = "function"}

NoEffects == <<>>

\* fs.existsSync is only called with headers set and overwrite not: the File starts with
\* and without its first destination in storage there, and without it elsewhere.
Created(c) ==
        /\ cfg = c
        /\ fields = cfg.fields
        /\ buffer = <<>>
        /\ lastPath = NoPath
        /\ open = TRUE
        /\ timerFlushInterval = IF cfg.flushInterval > 0 THEN "timer" ELSE "undefined"
        /\ existing \in {{}, {"a.csv"}}
        /\ existing # {} => cfg.path = "function" /\ cfg.headers /\ ~cfg.overwrite
        /\ inflight = {}
        /\ nextId = 0
        /\ last = [op |-> "new", data |-> NoData, listener |-> <<>>, thrown |-> "none",
                   effects |-> NoEffects]
        /\ hist = [data |-> {}, written |-> {}, headers |-> [p \in Paths |-> 0],
                   flushes |-> [p \in Paths |-> 0], dispatched |-> 0, cleared |-> 0]

(***************************************************************************)
(* What a handler call leaves behind.                                      *)
(***************************************************************************)
Select(effects, type) == SelectSeq(effects, LAMBDA e : e.type = type)

RECURSIVE IdSet(_)
IdSet(effects) == IF effects = <<>> THEN {}
                  ELSE {effects[1].ids[i] : i \in 1..Len(effects[1].ids)} \cup IdSet(Tail(effects))

CountTo(effects, p) == Len(SelectSeq(effects, LAMBDA e : e.path = p))

Done(m, op, data, inp) ==
    LET datas == Select(m.effects, "data")
        writes == Select(m.effects, "write")
    IN  /\ fields' = m.fields
        /\ buffer' = m.buffer
        /\ lastPath' = m.lastPath
        /\ open' = m.open
        /\ timerFlushInterval' = m.timerFlushInterval
        /\ nextId' = m.nextId
        /\ inflight' = inflight \cup {[seq |-> hist.dispatched + i, path |-> writes[i].path,
                                       csv |-> writes[i].csv, mode |-> writes[i].mode,
                                       ids |-> writes[i].ids] : i \in 1..Len(writes)}
        /\ last' = [op |-> op, data |-> data,
                    listener |-> IF datas = <<>> THEN <<>> ELSE inp.listener,
                    thrown |-> m.thrown, effects |-> m.effects]
        /\ hist' = [data |-> hist.data \cup IdSet(datas),
                    written |-> hist.written \cup IdSet(writes),
                    headers |-> [p \in Paths |-> hist.headers[p]
                                   + CountTo(SelectSeq(datas, LAMBDA e : e.hdr # <<>>), p)],
                    flushes |-> [p \in Paths |-> hist.flushes[p] + CountTo(datas, p)],
                    dispatched |-> hist.dispatched + Len(writes),
                    cleared |-> hist.cleared
                                + Len(SelectSeq(m.effects, LAMBDA e : e.type = "clearInterval"
                                                                      /\ e.path = "timer"))]
        /\ UNCHANGED <<cfg, existing>>

\* What the listener does and what the path callback returns only matter to a call
\* that gets as far as resolving the path; the other calls are taken once.
Quiet == [listener |-> <<>>, path0 |-> IF cfg.path # "function" THEN cfg.path ELSE "a.csv",
          path1 |-> IF cfg.path # "function" THEN cfg.path ELSE "a.csv"]

InputsOf(m) == IF Select(m.effects, "data") # <<>> THEN Inputs ELSE {Quiet}

\* limit bounds the lines a run adds
Add(limit) ==
    \E data \in Arguments :
      \E inp \in InputsOf(add(Machine, data, Quiet, 0)) :
        /\ nextId + 1 + AddsIn(inp.listener) <= limit
        /\ \E m \in {add(Machine, data, inp, 0)} : Done(m, "add", data, inp)

Flush(limit) ==
    \E inp \in InputsOf(flush(Machine, Quiet, 0)) :
      /\ nextId + AddsIn(inp.listener) <= limit
      /\ \E m \in {flush(Machine, inp, 0)} : Done(m, "flush", NoData, inp)

Complete(limit) ==
    \E inp \in InputsOf(complete(Machine, Quiet, 0)) :
      /\ nextId + AddsIn(inp.listener) <= limit
      /\ \E m \in {complete(Machine, inp, 0)} : Done(m, "complete", NoData, inp)

\* the callback of setInterval
Tick(limit) ==
    \E inp \in InputsOf(flush(Machine, Quiet, 0)) :
      /\ timerFlushInterval = "timer"
      /\ nextId + AddsIn(inp.listener) <= limit
      /\ \E m \in {flush(Machine, inp, 0)} : Done(m, "tick", NoData, inp)

\* the callback of fs.writeFile or fs.appendFile, with or without an error
WriteCallback == \E w \in inflight, err \in BOOLEAN :
                   /\ inflight' = inflight \ {w}
                   /\ existing' = IF err THEN existing ELSE existing \cup {w.path}
                   /\ last' = [op |-> "callback", data |-> NoData, listener |-> <<>>,
                               thrown |-> "none",
                               effects |-> IF err
                                           THEN <<Effect("error", w.path, <<>>, w.csv, w.mode, w.ids)>>
                                           ELSE NoEffects]
                   /\ UNCHANGED <<cfg, fields, buffer, lastPath, open, timerFlushInterval, nextId, hist>>

Next == Add(MaxAdds) \/ Flush(MaxAdds) \/ Complete(MaxAdds) \/ Tick(MaxAdds) \/ WriteCallback

Init == \E c \in Configs : Created(c)

Spec == Init /\ [][Next]_vars

\* The runs with a threshold of lines, one add longer.
InitLines == \E c \in Configs : c.flushLines > 0 /\ Created(c)

NextLines == \/ Add(MaxAdds + 1) \/ Flush(MaxAdds + 1) \/ Complete(MaxAdds + 1)
             \/ Tick(MaxAdds + 1) \/ WriteCallback

SpecLines == InitLines /\ [][NextLines]_vars

(***************************************************************************)
(* What the properties below read off a step.  In every step that is not   *)
(* a stuttering step, last' describes the handler call the step is.        *)
(***************************************************************************)
IsPrefix(s, t) == Len(s) <= Len(t) /\ SubSeq(t, 1, Len(s)) = s

\* _(this).lastPath as the code behind effect i of a call reads it: the path of the
\* last write the call has dispatched before, or else what it was before the call
LastWritten(before, effects, i) ==
    LET ws == {j \in 1..(i - 1) : effects[j].type = "write"}
    IN  IF ws = {} THEN before ELSE effects[CHOOSE j \in ws : \A k \in ws : k <= j].path

\* the keys of a row that the fields do not have, in the order of the row
NewKeys(fs, keys) == SelectSeq(keys, LAMBDA k : \A i \in 1..Len(fs) : fs[i].name # k)

(***************************************************************************)
(* C1                                                                      *)
(***************************************************************************)
\* C1: with flushLines = 0 and flushInterval = 0, every add that returns has caused
\* one flush per line added during the call (the line of the call, and the line the
\* listener adds if it adds one), the first of them holds exactly the line just
\* added, each holds exactly one line, and the buffer is empty when add returns.
ImmediateFlush ==
    [][(cfg.flushLines = 0 /\ cfg.flushInterval = 0 /\ last'.op = "add" /\ last'.thrown = "none")
         => LET datas == Select(last'.effects, "data")
            IN  /\ Len(datas) = nextId' - nextId
                /\ Len(datas) >= 1
                /\ datas[1].ids = <<nextId + 1>>
                /\ \A i \in 1..Len(datas) : Len(datas[i].ids) = 1
                /\ buffer' = <<>>]_vars

(***************************************************************************)
(* C2                                                                      *)
(***************************************************************************)
\* C2: with flushLines = N > 0, an add that returns causes no flush while the buffer
\* then holds at most N lines; otherwise it causes exactly one flush, of all the
\* buffered lines with the new one, which are N + 1 lines, and no line of them
\* stays in the buffer.
LinesThreshold ==
    [][(cfg.flushLines > 0 /\ last'.op = "add" /\ last'.thrown = "none")
         => LET datas == Select(last'.effects, "data")
            IN  IF Len(buffer) + 1 <= cfg.flushLines
                THEN datas = <<>> /\ Ids(buffer') = Ids(buffer) \o <<nextId + 1>>
                ELSE /\ Len(datas) = 1
                     /\ datas[1].ids = Ids(buffer) \o <<nextId + 1>>
                     /\ Len(datas[1].ids) = cfg.flushLines + 1
                     /\ \A i \in 1..Len(buffer') : buffer'[i].id > nextId + 1]_vars

HeaderOncePerDestination ==
    \A p \in Paths :
      (cfg.headers /\ hist.flushes[p] > 0 /\ \A q \in Paths \ {p} : hist.flushes[q] = 0)
        => hist.headers[p] = 1

(***************************************************************************)
(* C5                                                                      *)
(***************************************************************************)
\* C5: every write of a call is dispatched with writeFile if and only if overwrite is
\* set and the path differs from the last path written to, and with appendFile
\* otherwise; so a write to the path of the write before it appends; and the last
\* path written to is afterwards the path of the last write.
WriteModeRule ==
    [][/\ \A i \in 1..Len(last'.effects) :
            last'.effects[i].type = "write"
              => LET e == last'.effects[i]
                     prev == LastWritten(lastPath, last'.effects, i)
                 IN  /\ e.mode = IF cfg.overwrite /\ prev # e.path THEN "writeFile"
                                                                   ELSE "appendFile"
                     /\ prev = e.path => e.mode = "appendFile"
       /\ lastPath' = LastWritten(lastPath, last'.effects, Len(last'.effects) + 1)]_vars

\* C5 happens: with overwrite set, a second flush to the same path has appended
AppendAfterOverwrite ==
    /\ cfg.overwrite
    /\ last.listener = <<>>
    /\ hist.dispatched >= 2
    /\ \E i \in 1..Len(last.effects) :
         last.effects[i].type = "write" /\ last.effects[i].mode = "appendFile"

(***************************************************************************)
(* C6                                                                      *)
(***************************************************************************)
\* C6: a File that is not open stays so, and every call of add, flush or complete on
\* it throws 'file_not_open' and changes nothing: not the buffer, the fields, the
\* last path, the open flag or the timer, and nothing is emitted or dispatched.
ClosedIsTerminal ==
    [][~open => /\ ~open'
                /\ last'.op \in {"add", "flush", "complete"}
                     => /\ last'.thrown = NotOpen
                        /\ last'.effects = <<>>
                        /\ UNCHANGED <<fields, buffer, lastPath, timerFlushInterval,
                                       nextId, inflight, hist>>]_vars

\* C6 happens: add was called after complete had returned, and has thrown
AddAfterComplete == ~open /\ last.op = "add" /\ last.data \in Rows /\ last.thrown = NotOpen

(***************************************************************************)
(* C7                                                                      *)
(***************************************************************************)
\* C7: complete on an open File first clears the interval, if one is running, then
\* flushes all the buffered lines, and when the flush returns the File is closed;
\* the interval is cleared at most once in a run, and its callback only runs while
\* the File is open and no complete has been called.
CompleteTearsDown ==
    [][/\ (open /\ last'.op = "complete")
            => LET clears == {i \in 1..Len(last'.effects) :
                                last'.effects[i].type = "clearInterval"}
                   datas == {i \in 1..Len(last'.effects) : last'.effects[i].type = "data"}
               IN  /\ timerFlushInterval' = "null"
                   /\ clears = IF timerFlushInterval # "null" THEN {1} ELSE {}
                   /\ timerFlushInterval = "timer" => hist.cleared' = 1
                   /\ last'.thrown = "none"
                        => /\ ~open'
                           /\ \A i \in 1..Len(buffer) : buffer[i].id \in hist.written'
                           /\ buffer # <<>>
                                => \E i \in datas : /\ last'.effects[i].ids = Ids(buffer)
                                                    /\ \A j \in clears : j < i
       /\ hist.cleared' <= 1
       /\ last'.op = "tick" => open /\ timerFlushInterval # "null" /\ hist.cleared = 0]_vars

\* C7 happens: complete has stopped a running interval, flushed lines and closed
CompletedWithTimer ==
    /\ last.op = "complete" /\ last.thrown = "none"
    /\ ~open /\ hist.cleared = 1
    /\ \E i \in 1..Len(last.effects) : last.effects[i].type = "data"

(***************************************************************************)
(* C8                                                                      *)
(***************************************************************************)
\* C8: the callback of a write emits "error" exactly once, with the path and the text
\* of that write, when the write has failed, and nothing otherwise; it throws
\* nothing and changes nothing of the File; a call that has dispatched a write has
\* thrown nothing; and a line that was flushed is never in the buffer nor in a
\* flush again.
WriteFailureReported ==
    [][/\ last'.op = "callback"
            => \E w \in inflight :
                 /\ inflight' = inflight \ {w}
                 /\ last'.thrown = "none"
                 /\ \/ last'.effects = <<>> /\ existing' = existing \cup {w.path}
                    \/ /\ last'.effects = <<Effect("error", w.path, <<>>, w.csv, w.mode, w.ids)>>
                       /\ existing' = existing
                 /\ UNCHANGED <<fields, buffer, lastPath, open, timerFlushInterval, nextId, hist>>
       /\ last'.op # "callback"
            => /\ Select(last'.effects, "error") = <<>>
               /\ Select(last'.effects, "write") # <<>> => last'.thrown = "none"
               /\ IdSet(Select(last'.effects, "data")) \cap hist.data = {}
               /\ \A i \in 1..Len(buffer') : buffer'[i].id \notin hist.data']_vars

\* C8 happens: a write has failed, and lines were added and flushed afterwards
FailedWriteThenFlush ==
    /\ last.op = "callback"
    /\ Len(last.effects) = 1 /\ last.effects[1].type = "error"
    /\ \E id \in hist.data : \A i \in 1..Len(last.effects[1].ids) : id > last.effects[1].ids[i]

(***************************************************************************)
(* C9                                                                      *)
(***************************************************************************)
\* C9: add on an open File with a string, undefined or null throws 'invalid_data',
\* leaves the buffer and the fields as they were, and emits and dispatches nothing.
InvalidDataRejected ==
    [][(open /\ last'.op = "add" /\ last'.data \in NotRows)
         => /\ last'.thrown = InvalidData
            /\ last'.effects = <<>>
            /\ UNCHANGED <<buffer, fields>>]_vars

(***************************************************************************)
(* C10                                                                     *)
(***************************************************************************)
\* C10: every step leaves the fields it found where they were and only appends quoted
\* fields behind them; add of a key/value map on an open File appends the keys the
\* fields did not have, in the order of the map.
SchemaAppendOnly ==
    [][/\ IsPrefix(fields, fields')
       /\ \A i \in (Len(fields) + 1)..Len(fields') : fields'[i].quoted
       /\ (open /\ last'.op = "add" /\ last'.data.kind = "object")
            => LET new == NewKeys(fields, last'.data.keys)
               IN  /\ Len(fields') >= Len(fields) + Len(new)
                   /\ \A i \in 1..Len(new) : fields'[Len(fields) + i].name = new[i]]_vars

\* C10 happens otherwise too: the key "1" of a row has been put before the field A
\* that the options had defined
IndexKeyBeforeField ==
    /\ cfg.fields # <<>>
    /\ Len(fields) >= 2 /\ fields[1].name = Name1 /\ fields[2].name = NameA

(***************************************************************************)
(* C11                                                                     *)
(***************************************************************************)
\* C11: add of an array with more values than there are fields, on an open File that
\* flushes at once and has nothing buffered, returns, and the flush it causes holds
\* that line: the text of the fields' cells and of the cells behind them.
LongRowFlushed ==
    [][(/\ open /\ buffer = <<>>
        /\ cfg.flushLines = 0 /\ cfg.flushInterval = 0
        /\ last'.op = "add" /\ last'.data.kind = "array"
        /\ Len(last'.data.vals) > Len(fields))
         => /\ last'.thrown = "none"
            /\ \E i \in 1..Len(last'.effects) :
                 /\ last'.effects[i].type = "data"
                 /\ last'.effects[i].ids = <<nextId + 1>>
                 /\ Len(last'.effects[i].csv) > Len(last'.effects[i].hdr)]_vars

(***************************************************************************)
(* C12                                                                     *)
(***************************************************************************)
\* the pieces of a text between the occurrences of a character
RECURSIVE Split(_, _)
Split(text, sep) ==
    LET hits == {i \in 1..Len(text) : text[i] = sep}
    IN  IF hits = {} THEN <<text>>
        ELSE LET i == CHOOSE h \in hits : \A g \in hits : h <= g
             IN  <<SubSeq(text, 1, i - 1)>> \o Split(SubSeq(text, i + 1, Len(text)), sep)

\* the cells of the data lines of a text that ends with eol; no cell of the rows of this
\* model holds the delimeter or eol
CellsOf(text) ==
    LET lines == Split(text, eol[1])
    IN  [j \in 1..(Len(lines) - 1) |-> Split(lines[j], delimeter[1])]

\* the line add pushes for data, given the fields after it
LineOf(data, fs) ==
    IF data.kind = "array" THEN data.vals ELSE [i \in 1..Len(fs) |-> Lookup(data, fs[i].name)]

\* the lines a call has to flush: those in the buffer and the one it adds
LinesOf(buf, call, fs, pushed) ==
    [k \in 1..Len(buf) |-> buf[k].data]
      \o (IF call.op = "add" /\ pushed THEN <<LineOf(call.data, fs)>> ELSE <<>>)

\* C12: in every flush (of a call during which the listener adds nothing) each line
\* that is not longer than the fields has as many cells as there are fields, and the
\* cell of a value that is missing, undefined or null is nullValue as it is, whether
\* the field is quoted or not.
NullCells ==
    [][\A i \in 1..Len(last'.effects) :
         (last'.effects[i].type = "data" /\ AddsIn(last'.listener) = 0)
           => LET e == last'.effects[i]
                  rows == LinesOf(buffer, last', fields', nextId' > nextId)
                  cells == CellsOf(SubSeq(e.csv, Len(e.hdr) + 1, Len(e.csv)))
              IN  /\ Len(cells) = Len(rows)
                  /\ Len(e.ids) = Len(rows)
                  /\ \A j \in 1..Len(rows) :
                       Len(rows[j]) <= Len(fields')
                         => /\ Len(cells[j]) = Len(fields')
                            /\ \A k \in 1..Len(fields') :
                                 (k > Len(rows[j]) \/ rows[j][k].kind \in {"undefined", "null"})
                                   => cells[j][k] = nullValue]_vars

\* C12 happens: two lines were flushed together, the first shorter than the fields and
\* filled up with nullValue, the second with nullValue for a null in a quoted field
PaddedLineFlushed ==
    \E i \in 1..Len(last.effects) :
      /\ last.effects[i].type = "data"
      /\ Len(last.effects[i].ids) = 2
      /\ LET e == last.effects[i]
             cells == CellsOf(SubSeq(e.csv, Len(e.hdr) + 1, Len(e.csv)))
         IN  /\ Len(cells) = 2 /\ Len(cells[1]) = 2 /\ Len(cells[2]) = 2
             /\ cells[1][1] = quote \o <<"x">> \o quote /\ cells[1][2] = nullValue
             /\ cells[2][1] = nullValue /\ cells[2][2] # nullValue
             /\ Len(fields) = 2 /\ fields[1].quoted

(***************************************************************************)
(* C13                                                                     *)
(***************************************************************************)
\* t is v with the escape character put before the first quote character of v, if v
\* has one, and nothing else changed
EscapedOnce(t, v) ==
    LET qs == {i \in 1..Len(v) : v[i] = quote[1]}
    IN  IF qs = {} THEN t = v
        ELSE LET p == CHOOSE q \in qs : \A r \in qs : q <= r
             IN  /\ Len(t) = Len(v) + 1
                 /\ \A i \in 1..Len(t) : t[i] = IF i < p THEN v[i]
                                                ELSE IF i = p THEN escape[1] ELSE v[i - 1]

\* C13: in every flush (of a call during which the listener adds nothing) the cell of
\* a string or a number in a quoted field is the quote character, the text of the
\* value with only its first quote character escaped, and the quote character.
QuotedCells ==
    [][\A i \in 1..Len(last'.effects) :
         (last'.effects[i].type = "data" /\ AddsIn(last'.listener) = 0)
           => LET e == last'.effects[i]
                  rows == LinesOf(buffer, last', fields', nextId' > nextId)
                  cells == CellsOf(SubSeq(e.csv, Len(e.hdr) + 1, Len(e.csv)))
              IN  \A j \in 1..Len(rows) : \A k \in 1..Len(rows[j]) :
                    (/\ k <= Len(fields') /\ fields'[k].quoted
                     /\ rows[j][k].kind \in {"string", "number"})
                      => LET c == cells[j][k]
                         IN  /\ Len(c) >= 2
                             /\ c[1] = quote[1] /\ c[Len(c)] = quote[1]
                             /\ EscapedOnce(SubSeq(c, 2, Len(c) - 1), toString(rows[j][k]))]_vars

\* C13 happens: the value a"b" has been flushed as "a\"b"", its second quote character
\* not escaped
SecondQuoteUnescaped ==
    \E i \in 1..Len(last.effects) :
      /\ last.effects[i].type = "data"
      /\ LET e == last.effects[i]
             cells == CellsOf(SubSeq(e.csv, Len(e.hdr) + 1, Len(e.csv)))
         IN  \E j \in 1..Len(cells) : \E k \in 1..Len(cells[j]) :
               cells[j][k] = <<"\"", "a", "\\", "\"", "b", "\"", "\"">>

(***************************************************************************)
(* C14                                                                     *)
(***************************************************************************)
\* C14: flush (called or from the interval) on an open File with an empty buffer does
\* nothing at all; with lines in the buffer, when it returns, it has emitted "data"
\* once with those lines, and in every call that returns each "data" is followed by
\* one write of the same path and text and each write follows its "data"; the lines
\* of a "data" are no more in the buffer, nor in another "data" of the call; and
\* the callback of a write, failed or not, emits no "data".
DataOncePerFlush ==
    [][/\ (open /\ last'.op \in {"flush", "tick"} /\ buffer = <<>>)
            => /\ last'.effects = <<>> /\ last'.thrown = "none"
               /\ UNCHANGED <<fields, buffer, lastPath, open, timerFlushInterval, nextId,
                              inflight, existing, hist>>
       /\ (open /\ last'.op \in {"flush", "tick"} /\ buffer # <<>> /\ last'.thrown = "none")
            => LET datas == Select(last'.effects, "data")
               IN  /\ Len(SelectSeq(datas, LAMBDA e : e.ids = Ids(buffer))) = 1
                   /\ last'.effects[1] = datas[1]
                   /\ datas[1].ids = Ids(buffer)
                   /\ datas[1].path \in Paths
                   /\ cfg.path # "function" => datas[1].path = cfg.path
       /\ last'.thrown = "none"
            => LET datas == {i \in 1..Len(last'.effects) : last'.effects[i].type = "data"}
                   writes == {i \in 1..Len(last'.effects) : last'.effects[i].type = "write"}
                   Same(i, j) == /\ last'.effects[i].path = last'.effects[j].path
                                 /\ last'.effects[i].csv = last'.effects[j].csv
                                 /\ last'.effects[i].ids = last'.effects[j].ids
               IN  /\ \A i \in datas : Cardinality({j \in writes : Same(i, j)}) = 1
                   /\ \A i \in datas : \A j \in writes : Same(i, j) => i < j
                   /\ \A j \in writes : \E i \in datas : Same(i, j)
                   /\ \A i \in datas : \A j \in datas :
                        i # j => IdSet(<<last'.effects[i]>>) \cap IdSet(<<last'.effects[j]>>) = {}
                   /\ \A i \in datas : \A k \in 1..Len(buffer') :
                        buffer'[k].id \notin IdSet(<<last'.effects[i]>>)
       /\ last'.op = "callback" => Select(last'.effects, "data") = <<>>]_vars

\* C14 happens: a call of flush has emitted "data" and then dispatched the write
FlushEmittedThenWrote ==
    /\ last.op = "flush" /\ last.thrown = "none"
    /\ Len(last.effects) = 2
    /\ last.effects[1].type = "data" /\ last.effects[2].type = "write"
    /\ last.effects[1].csv = last.effects[2].csv /\ last.effects[1].ids # <<>>

(***************************************************************************)
(* C15                                                                     *)
(***************************************************************************)
\* C15: a call that dispatches writes leaves as the last path the path of the last of
\* them, in the very step that dispatches, and no callback of a write, failed or
\* not, changes the last path; so a flush to the last path puts no header line and
\* appends, whatever became of the write before.
LastPathUnconditional ==
    [][/\ last'.op # "callback"
            => LET writes == Select(last'.effects, "write")
               IN  /\ writes # <<>> => lastPath' = writes[Len(writes)].path
                   /\ writes = <<>> => lastPath' = lastPath
                   /\ \A i \in 1..Len(writes) :
                        \E w \in inflight' \ inflight :
                          w.path = writes[i].path /\ w.csv = writes[i].csv
       /\ last'.op = "callback" => lastPath' = lastPath
       /\ \A i \in 1..Len(last'.effects) :
            (/\ last'.effects[i].type \in {"data", "write"}
             /\ last'.effects[i].path = LastWritten(lastPath, last'.effects, i))
              => /\ last'.effects[i].type = "data" => last'.effects[i].hdr = <<>>
                 /\ last'.effects[i].type = "write" => last'.effects[i].mode = "appendFile"]_vars

\* C15 happens: all the writes before the last call went to one path and failed (the
\* path does not exist and only the write of the last call is pending), and the last
\* call, with headers and overwrite set, flushed to that path without the header line
\* and appended
AppendedAfterFailedWrite ==
    /\ cfg.headers /\ cfg.overwrite
    /\ last.op \in {"add", "flush"} /\ last.listener = <<>>
    /\ Len(last.effects) = 2
    /\ last.effects[1].type = "data" /\ last.effects[1].hdr = <<>>
    /\ last.effects[2].type = "write" /\ last.effects[2].mode = "appendFile"
    /\ lastPath = last.effects[2].path
    /\ lastPath \notin existing
    /\ hist.dispatched >= 2 /\ Cardinality(inflight) = 1
    /\ \A p \in Paths \ {lastPath} : hist.flushes[p] = 0

(***************************************************************************)
(* C16                                                                     *)
(***************************************************************************)
\* C16: in every call that returns, the writes are dispatched in the order in which
\* the flushes were called (the order of their "data"), and every flush after the
\* first of the call decides on the header line and on writeFile or appendFile
\* against the path of the flush called before it.
DispatchInCallOrder ==
    [][last'.thrown = "none"
         => LET datas == Select(last'.effects, "data")
                writes == Select(last'.effects, "write")
            IN  /\ Len(writes) = Len(datas)
                /\ \A k \in 1..Len(datas) : writes[k].ids = datas[k].ids
                /\ \A k \in 2..Len(datas) :
                     /\ (datas[k].hdr # <<>>)
                          <=> (/\ cfg.headers /\ datas[k - 1].path # datas[k].path
                               /\ (cfg.overwrite \/ datas[k].path \in existing))
                     /\ (writes[k].mode = "writeFile")
                          <=> (cfg.overwrite /\ datas[k - 1].path # datas[k].path)]_vars

(***************************************************************************)
(* C17                                                                     *)
(***************************************************************************)
\* C17: add of an array or a key/value map on an open File only puts the line in the
\* buffer, emitting and dispatching nothing, when flushLines = 0 and flushInterval > 0,
\* and when flushLines > 0 and the buffer then holds at most flushLines lines; with
\* flushLines = 0 and flushInterval > 0 lines only leave the buffer in a call of
\* flush, of complete or of the interval; and with flushLines > 0 an add that makes
\* the buffer longer than flushLines and returns has flushed.
AddOnlyBuffers ==
    [][/\ (/\ open /\ last'.op = "add" /\ last'.data \in Rows
           /\ \/ cfg.flushLines = 0 /\ cfg.flushInterval > 0
              \/ cfg.flushLines > 0 /\ Len(buffer) + 1 <= cfg.flushLines)
            => /\ last'.thrown = "none"
               /\ last'.effects = <<>>
               /\ Ids(buffer') = Ids(buffer) \o <<nextId + 1>>
               /\ inflight' = inflight /\ lastPath' = lastPath
       /\ (cfg.flushLines = 0 /\ cfg.flushInterval > 0 /\ \E k \in 1..Len(buffer) :
                                       buffer[k].id \notin {buffer'[j].id : j \in 1..Len(buffer')})
            => last'.op \in {"flush", "complete", "tick"}
       /\ (/\ open /\ last'.op = "add" /\ last'.data \in Rows /\ last'.thrown = "none"
           /\ cfg.flushLines > 0 /\ Len(buffer) + 1 > cfg.flushLines)
            => \E i \in 1..Len(last'.effects) :
                 /\ last'.effects[i].type = "data"
                 /\ last'.effects[i].ids = Ids(buffer) \o <<nextId + 1>>]_vars

\* C17 happens: with an interval and no threshold of lines, two adds have left two
\* lines in the buffer and nothing has been flushed
BufferedUntilTick ==
    /\ cfg.flushLines = 0 /\ cfg.flushInterval > 0
    /\ last.op = "add" /\ last.thrown = "none" /\ last.effects = <<>>
    /\ Len(buffer) = 2 /\ hist.data = {} /\ timerFlushInterval = "timer"

(***************************************************************************)
(* C18                                                                     *)
(***************************************************************************)
\* what generating the output of a flush can throw: 'not_a_string' of _enquote, and the
\* TypeErrors of field.quoted and of join
RenderFailures == {NotAString, QuotedOfUndefined, NoPrimitive}

\* C18: a call of add, flush, complete or of the interval that throws what generating
\* the output throws, 'not_a_string' in particular, has emitted and dispatched
\* nothing and leaves the last path and the open flag as they were, the File open
\* also after complete, and the buffer as the flush found it: the lines it held, and
\* behind them the line of the add, if the call is an add.
RenderFailureKeepsState ==
    [][last'.thrown \in RenderFailures
         => /\ Select(last'.effects, "data") = <<>>
            /\ Select(last'.effects, "write") = <<>>
            /\ inflight' = inflight /\ hist.data' = hist.data
            /\ lastPath' = lastPath
            /\ open /\ open'
            /\ SubSeq(buffer', 1, Len(buffer)) = buffer
            /\ Ids(buffer') = Ids(buffer) \o (IF last'.op = "add" THEN <<nextId + 1>> ELSE <<>>)
            /\ buffer' # <<>>]_vars

\* C18 happens: the final flush of complete has thrown 'not_a_string'; the File is
\* open, its lines are in the buffer and nothing of them has been emitted
CompleteFailedToRender ==
    /\ last.op = "complete" /\ last.thrown = NotAString
    /\ open /\ buffer # <<>>
    /\ \A k \in 1..Len(buffer) : buffer[k].id \notin hist.data

(***************************************************************************)
(* C19                                                                     *)
(***************************************************************************)
\* C19: no call emits a line that has been emitted before, the lines of every "data"
\* are in the order in which they were added, and when complete returns the buffer
\* is empty and every line that add has accepted, the lines added by the listener
\* during the call too, has been handed to a write.
NoRowLost ==
    [][/\ IdSet(Select(last'.effects, "data")) \cap hist.data = {}
       /\ \A i \in 1..Len(last'.effects) :
            \A j \in 1..Len(last'.effects[i].ids) : \A k \in 1..Len(last'.effects[i].ids) :
              j < k => last'.effects[i].ids[j] < last'.effects[i].ids[k]
       /\ (open /\ last'.op = "complete" /\ last'.thrown = "none")
            => /\ buffer' = <<>>
               /\ \A id \in 1..nextId' : id \in hist.written']_vars

(***************************************************************************)
(* C20                                                                     *)
(***************************************************************************)
\* C20: with headers and overwrite set, as in the usage example, the lines of a
\* key/value map that add flushes at once have as many cells as the header line: the
\* one of the same flush, or else, when the flush goes on with the last path, the one
\* at the start of the last writeFile to that path that is still pending.
HeaderMatchesData ==
    [][\A i \in 1..Len(last'.effects) :
         (/\ last'.effects[i].type = "data"
          /\ cfg.headers /\ cfg.overwrite
          /\ last'.op = "add" /\ last'.data.kind = "object"
          /\ last'.listener = <<>> /\ buffer = <<>>)
           => LET e == last'.effects[i]
                  lines == CellsOf(SubSeq(e.csv, Len(e.hdr) + 1, Len(e.csv)))
                  heads == {w \in inflight : w.path = e.path /\ w.mode = "writeFile"}
              IN  /\ e.hdr # <<>>
                       => \A j \in 1..Len(lines) : Len(lines[j]) = Len(CellsOf(e.hdr)[1])
                  /\ e.hdr = <<>>
                       => \A w \in heads :
                            (\A v \in heads : v.seq <= w.seq)
                              => \A j \in 1..Len(lines) :
                                   Len(lines[j]) = Len(CellsOf(w.csv)[1])]_vars

====
